---- MODULE Spec2Model ----
(***************************************************************************)
(* KiteTurbineSimulation: the rotor physics tick (render), the deployment  *)
(* transition, the throttled UI sampler (uiInterval) and the input         *)
(* handlers of the control panel, as a state machine.                      *)
(*                                                                         *)
(* Numbers.  The component computes in IEEE doubles.  Here every real is a *)
(* fixed-point integer:                                                    *)
(*   tsr, optimalTsr, targetTSR, brakeRatio, torque : multiples of 1/Scale *)
(*   deploymentRef, depl                            : 1/DeployScale        *)
(*   rpm                                            : 1/100 (centi-rpm)    *)
(*   dt                                             : milliseconds, as     *)
(*        Date.now() delivers them (dt = ms / 1000 seconds)                *)
(* and every division rounds to the nearest unit (RoundDiv).  Math.PI is   *)
(* 355/113.  Intermediate products are ordered so that they stay below     *)
(* 2^31.                                                                   *)
(*                                                                         *)
(* Angles (camera theta and phi, the tilt, the rotor angle) are in 1/1000   *)
(* rad, world coordinates in integer units, depth keys of the draw queue   *)
(* in half units (DepthScale), Math.sin and Math.cos are Bhaskara's        *)
(* rational approximation in 1/TrigScale.                                  *)
(*                                                                         *)
(* render is the physics (Tick) followed by the drawing (Draw: geometry,   *)
(* draw queue, labels).  The drawing reads the physics and the camera and  *)
(* writes drawQueue and labels only.  The specifications of the physics    *)
(* leave the drawing out: the camera, the queue and the labels stand       *)
(* still there.  SpecView runs whole frames, SpecCamera the mouse          *)
(* handlers, SpecProjection worldToScreen alone.                           *)
(*                                                                         *)
(* React.  A state setter that changes a value in a dependency list makes  *)
(* the effect of that list run again after the commit; nothing of the      *)
(* component runs between the commit and its effects.  effectPending is    *)
(* that obligation: while it holds, RenderEffect is the only step.         *)
(***************************************************************************)
EXTENDS Integers, Sequences, FiniteSets, TLC

\* ------------------------------------------------------------ numbers

Scale == 10000
DeployScale == 100000

Abs(x) == IF x < 0 THEN -x ELSE x
Max(a, b) == IF a >= b THEN a ELSE b
Min(a, b) == IF a <= b THEN a ELSE b

\* a / b rounded to the nearest integer (b > 0)
RoundDiv(a, b) == (2 * a + b) \div (2 * b)

\* ------------------------------------------------------------ bounds

\* ticks (calls of render) in one behaviour of Spec
MaxTicks == 5
\* animation frames the spun-up initial state of Spec has run at wind 25, torque 100
SpinUpFrames == 4
\* input events (slider changes, autopilot toggles) in one behaviour of Spec
MaxInputs == 2
\* animation frames the initial state of SpecBreeze has run at wind 18, torque 50
BreezeFrames == 42
\* animation frames in one behaviour of SpecView
MaxViewFrames == 3
\* mouse and wheel events in one behaviour of SpecCamera
MaxMouseEvents == 4
\* animation frames the cruising initial state of SpecAutoPilot has run at the
\* default settings (wind 12, torque 50)
CruiseFrames == 35

\* ------------------------------------------------------------ inputs

\* slider values the model draws from (each within the slider's min..max)
WindValues == {0, 3, 12, 18, 25}
TorqueValues == {0, 50, 100}
BladeCountValues == {6, 12}
BladeLengthOutValues == {100, 380}
BladeLengthInValues == {0, 230}
\* milliseconds between two calls of render
DtValues == {16, 1000, 2500}

\* ------------------------------------------------------------ constants

TSR_MAX_BASE == 6 * Scale

\* ------------------------------------------------------------ state

VARIABLES
    envWindSpeed,     \* useState: wind slider, m/s
    torque,           \* useState: generator torque, % (fixed point)
    isAutoPilot,      \* useState
    bladeCount,       \* useState
    bladeLengthOut,   \* useState, cm
    bladeLengthIn,    \* useState, cm
    uiRpm,            \* useState: rpm.toFixed(1), in 1/10
    uiTsr,            \* useState: tsr.toFixed(2), in 1/100
    uiStatus,         \* useState
    uiRunaway,        \* useState
    uiGrounded,       \* useState
    physicsState,     \* useRef: rpm, tsr, kw, compressionRisk, overspeedRisk, isRunaway, optimalTsr
    deploymentRef,    \* useRef: 0 (grounded) .. DeployScale (flying)
    frame,            \* the last call of render: the wind it read, its locals depl,
                      \* currentTorque and targetTSR, and tsr, kw, isRunaway before it
    sample,           \* what the last run of uiInterval read and reported
    effectPending,    \* the render effect has to run again
    loop,             \* what the effects have registered: animation-frame requests,
                      \* the resize listener, the uiInterval timer; who called render last
    cameraState,      \* useRef: theta, phi, radius, targetX, targetY, targetZ
    mouseState,       \* useRef: isDragging, isPanning, lastX, lastY
    probe,            \* a world point and what worldToScreen returned for it
    drawQueue,        \* the draw commands of the last frame, as flushed
    painted,          \* the draw() calls of the last frame, in the order they ran
    labels,           \* useState: liftKite, rotor, trpt, generator
    scene,            \* the screen points of the last frame that the labels are made from
    lastInput,        \* the last input event of this behaviour: control and value
    ticks,            \* calls of render so far
    inputs            \* input events so far

vars == <<envWindSpeed, torque, isAutoPilot, bladeCount, bladeLengthOut, bladeLengthIn,
          uiRpm, uiTsr, uiStatus, uiRunaway, uiGrounded, physicsState, deploymentRef,
          frame, sample, effectPending, loop, cameraState, mouseState, probe, drawQueue,
          painted, labels, scene, lastInput, ticks, inputs>>

reactInputs == <<envWindSpeed, isAutoPilot, bladeCount, bladeLengthOut, bladeLengthIn>>
reactUi == <<uiRpm, uiTsr, uiStatus, uiRunaway, uiGrounded>>
\* the camera and what the drawing writes
viewVars == <<cameraState, mouseState, probe, drawQueue, painted, labels, scene>>
\* the simulation: everything but the view and the two counters
simVars == <<reactInputs, torque, reactUi, physicsState, deploymentRef, frame, sample,
             effectPending, loop, lastInput>>

\* ------------------------------------------------------------ deployment

\* deploymentRef after the deployment state logic of one tick
DeploymentUpdate(deployment, windSpeed, dt) ==
    LET isGroundedCondition == windSpeed <= 3
        targetDeployment == IF isGroundedCondition THEN 0 ELSE DeployScale
        deployDiff == targetDeployment - deployment
    IN  IF Abs(deployDiff) * 1000 > DeployScale
        THEN deployment + RoundDiv(deployDiff * dt, 1250)   \* diff * (dt/1000) * 0.8
        ELSE targetDeployment

\* const depl = Math.max(0, Math.min(1, deploymentRef.current))
Depl(deployment) == Max(0, Min(DeployScale, deployment))

\* ------------------------------------------------------------ physics

bladeCountFactor(count) == ((count - 6) * Scale) \div 4
hollowFactor(lengthIn) == RoundDiv((800 - lengthIn) * Scale, 1600)
lengthFactor(lengthOut) == RoundDiv((lengthOut - 380) * Scale, 5000)

currentOptimalTSR(count, lengthIn, lengthOut) ==
    4 * Scale - bladeCountFactor(count) + hollowFactor(lengthIn) + lengthFactor(lengthOut)

currentMaxTSR(count, lengthIn, lengthOut) ==
    TSR_MAX_BASE - bladeCountFactor(count) + hollowFactor(lengthIn) + lengthFactor(lengthOut)

\* AutoPilotNewTorque with the correction negated (optimal - tsr for tsr - optimal)
AutoPilotNewTorque_ErrorNegated(tq, tsr, optimal) ==
    LET error == optimal - tsr
        correction == error * 2
    IN  Max(0, Min(80 * Scale, tq + correction))

\* newTorque of the autopilot: torque + (tsr - optimal) * 2.0, clamped to [0, MAX_SAFE_TORQUE]
AutoPilotNewTorque(tq, tsr, optimal) ==
    LET error == tsr - optimal
        correction == error * 2
    IN  Max(0, Min(80 * Scale, tq + correction))

\* the autopilot branch is taken and its dead-band is exceeded
AutoPilotActs(autoPilot, tq, newTorque) ==
    autoPilot /\ Abs(newTorque - tq) * 2 > Scale

\* EasedTorque with a step of 110% of the gap
EasedTorque_Overshoot(prev, newTorque) == prev + RoundDiv((newTorque - prev) * 11, 10)

\* setTorque(prev => prev + (newTorque - prev) * 0.1)
EasedTorque(prev, newTorque) == prev + RoundDiv(newTorque - prev, 10)

\* CurrentTorque that stays the stored torque
CurrentTorque_Stored(autoPilot, tq, newTorque) == tq

\* currentTorque: the torque the rest of the tick computes with
CurrentTorque(autoPilot, tq, newTorque) ==
    IF AutoPilotActs(autoPilot, tq, newTorque) THEN newTorque ELSE tq

\* brakeRatio = currentTorque / max(1, (max(0.1, wind) / 12)^2 * 100);
\* (wind/12)^2 * 100 = wind^2 * 25/36, which is below 1 for wind 0 and 1
brakeRatio(currentTorque, windSpeed) ==
    IF 25 * windSpeed * windSpeed < 36
    THEN currentTorque
    ELSE RoundDiv(currentTorque * 36, 25 * windSpeed * windSpeed)

\* targetTSR with the deployment gate tested in the non-runaway branch only
targetTSR_GateInsideElse(depl, isRunaway, windSpeed, ratio, optimal, maxTsr) ==
    IF isRunaway
    THEN IF windSpeed <= 18 THEN optimal ELSE (62 * Scale) \div 10
    ELSE IF depl * 2 < DeployScale THEN 0
         ELSE IF ratio >= Scale
              THEN Max(0, optimal - (ratio - Scale) * 2)
              ELSE optimal + RoundDiv((Scale - ratio) * (maxTsr - optimal), Scale)

\* targetTSR at the integration step
targetTSR(depl, isRunaway, windSpeed, ratio, optimal, maxTsr) ==
    IF depl * 2 < DeployScale THEN 0
    ELSE IF isRunaway
         THEN IF windSpeed <= 18 THEN optimal ELSE (62 * Scale) \div 10
         ELSE IF ratio >= Scale
              THEN Max(0, optimal - (ratio - Scale) * 2)
              ELSE optimal + RoundDiv((Scale - ratio) * (maxTsr - optimal), Scale)

\* RunawayAfter with entry on either condition (|| for &&)
RunawayAfter_EitherCondition(depl, isRunaway, windSpeed, ratio, target, kw) ==
    IF depl * 2 < DeployScale THEN isRunaway
    ELSE IF isRunaway
         THEN ~(windSpeed <= 18)
         ELSE IF ratio >= Scale
              THEN FALSE
              ELSE LET isPowerSaturated == kw >= 30
                   IN  target * 10 > 58 * Scale \/ isPowerSaturated

\* RunawayAfter with the release test inverted (> 18 for <= 18)
RunawayAfter_ReleaseInverted(depl, isRunaway, windSpeed, ratio, target, kw) ==
    IF depl * 2 < DeployScale THEN isRunaway
    ELSE IF isRunaway
         THEN ~(windSpeed > 18)
         ELSE IF ratio >= Scale
              THEN FALSE
              ELSE LET isPowerSaturated == kw >= 30
                   IN  target * 10 > 58 * Scale /\ isPowerSaturated

\* RunawayAfter with the release test strict (< 18 for <= 18)
RunawayAfter_ReleaseBelow18(depl, isRunaway, windSpeed, ratio, target, kw) ==
    IF depl * 2 < DeployScale THEN isRunaway
    ELSE IF isRunaway
         THEN ~(windSpeed < 18)
         ELSE IF ratio >= Scale
              THEN FALSE
              ELSE LET isPowerSaturated == kw >= 30
                   IN  target * 10 > 58 * Scale /\ isPowerSaturated

\* physicsState.isRunaway after the target selection
RunawayAfter(depl, isRunaway, windSpeed, ratio, target, kw) ==
    IF depl * 2 < DeployScale THEN isRunaway
    ELSE IF isRunaway
         THEN ~(windSpeed <= 18)
         ELSE IF ratio >= Scale
              THEN FALSE
              ELSE LET isPowerSaturated == kw >= 30
                   IN  target * 10 > 58 * Scale /\ isPowerSaturated

\* tsr += (targetTSR - tsr) * inertia, inertia = 0.05
IntegrateTsr(tsr, target) == tsr + RoundDiv(target - tsr, 20)

\* rpm = tsr * wind * 60 / (2 * PI * (ROTOR_RADIUS_SCALE + bladeLengthOut) / 100), centi-rpm
Rpm(tsr, windSpeed, lengthOut) ==
    RoundDiv(tsr * windSpeed * 678, 71 * (1050 + lengthOut))

\* Kw without the upper clamp
Kw_NoUpperClamp(currentTorque, rpm, count) ==
    LET product == (RoundDiv(currentTorque, 10) * rpm) \div 100
        raw == (product * 3 * (count + 4)) \div 3200000
    IN  Max(0, raw)

\* kw = clamp(floor((currentTorque/100) * (rpm/32) * 30 * (1 + (bladeCount-6)*0.1)), 0, 30)
Kw(currentTorque, rpm, count) ==
    LET product == (RoundDiv(currentTorque, 10) * rpm) \div 100
        raw == (product * 3 * (count + 4)) \div 3200000
    IN  Min(30, Max(0, raw))

\* ------------------------------------------------------------ status

\* Status with the runaway rule first
Status_RunawayFirst(deployment, isRunaway, windSpeed, tsr, optimal) ==
    IF isRunaway THEN "RUNAWAY"
    ELSE IF deployment * 2 < DeployScale THEN "GROUNDED"
    ELSE IF windSpeed <= 3 THEN "GROUNDED"
    ELSE IF tsr * 10 < optimal * 6 THEN "STALL"
    ELSE IF tsr * 4 > optimal * 5 THEN "OVERSPEED"
    ELSE "OPTIMAL"

\* the status string of uiInterval
Status(deployment, isRunaway, windSpeed, tsr, optimal) ==
    IF deployment * 2 < DeployScale THEN "GROUNDED"
    ELSE IF isRunaway THEN "RUNAWAY"
    ELSE IF windSpeed <= 3 THEN "GROUNDED"
    ELSE IF tsr * 10 < optimal * 6 THEN "STALL"
    ELSE IF tsr * 4 > optimal * 5 THEN "OVERSPEED"
    ELSE "OPTIMAL"

\* ------------------------------------------------------------ the tick

\* one call of render() on the program state s (the fields render reads and writes):
\* deployment state logic, physics simulation, setTorque of the autopilot
Tick(s, dt) ==
    LET ps == s.physicsState
        deployment1 == DeploymentUpdate(s.deploymentRef, s.envWindSpeed, dt)
        depl == Depl(deployment1)
        optimal == currentOptimalTSR(s.bladeCount, s.bladeLengthIn, s.bladeLengthOut)
        maxTsr == currentMaxTSR(s.bladeCount, s.bladeLengthIn, s.bladeLengthOut)
        newTorque == AutoPilotNewTorque(s.torque, ps.tsr, optimal)
        acts == AutoPilotActs(s.isAutoPilot, s.torque, newTorque)
        currentTorque == CurrentTorque(s.isAutoPilot, s.torque, newTorque)
        ratio == brakeRatio(currentTorque, s.envWindSpeed)
        target == targetTSR(depl, ps.isRunaway, s.envWindSpeed, ratio, optimal, maxTsr)
        runaway == RunawayAfter(depl, ps.isRunaway, s.envWindSpeed, ratio, target, ps.kw)
        tsr1 == IntegrateTsr(ps.tsr, target)
        rpm1 == Rpm(tsr1, s.envWindSpeed, s.bladeLengthOut)
        kw1 == Kw(currentTorque, rpm1, s.bladeCount)
    IN  [s EXCEPT
            !.deploymentRef = deployment1,
            !.physicsState = [rpm |-> rpm1, tsr |-> tsr1, kw |-> kw1,
                              compressionRisk |->
                                  (currentTorque > 85 * Scale /\ s.envWindSpeed > 10),
                              overspeedRisk |-> (tsr1 * 10 > optimal * 13),
                              isRunaway |-> runaway,
                              optimalTsr |-> optimal],
            !.torque = IF acts THEN EasedTorque(s.torque, newTorque) ELSE s.torque,
            !.frame = [ran |-> TRUE, windSpeed |-> s.envWindSpeed, depl |-> depl,
                       autoPilotActs |-> acts, currentTorque |-> currentTorque,
                       targetTSR |-> target,
                       before |-> [tsr |-> ps.tsr, kw |-> ps.kw,
                                   isRunaway |-> ps.isRunaway]]]

\* ------------------------------------------------------------ the camera

\* sines and cosines are in 1/TrigScale
TrigScale == 1000
\* Math.PI in 1/1000 rad
Pi == 3142
\* const fov = 2000
fov == 2000
\* canvas.width and canvas.height as handleResize sets them (window.innerWidth / Height)
CanvasWidth == 1200
CanvasHeight == 800

\* sin on [0, Pi]: 16 y (Pi - y) / (5 Pi^2 - 4 y (Pi - y)), within 0.2% of Math.sin
HalfSine(y) ==
    LET p == y * (Pi - y)
    IN  RoundDiv(16 * p, (5 * Pi * Pi - 4 * p) \div TrigScale)

\* Math.sin and Math.cos of an angle in 1/1000 rad
Sin(a) ==
    LET y == a % (2 * Pi)
    IN  IF y <= Pi THEN HalfSine(y) ELSE -HalfSine(y - Pi)
Cos(a) == Sin(a + Pi \div 2)

\* the initial camera pose: theta = PI + 15 degrees, phi = 0.1 - 10 degrees,
\* radius = 17000 * 0.85
InitialCamera ==
    [theta |-> 3403, phi |-> -75, radius |-> 14450,
     targetY |-> 2500, targetX |-> -850, targetZ |-> 1500]

InitialMouse == [isDragging |-> FALSE, isPanning |-> FALSE, lastX |-> 0, lastY |-> 0]

\* worldToScreen returning null
NoPoint == [hit |-> FALSE, x |-> 0, y |-> 0, z |-> 0]

\* worldToScreen with the test zFinal > 0 for zFinal >= 0
worldToScreen_BehindOnly(cam, p, width, height) ==
    LET x == p.x - cam.targetX
        y == p.y - cam.targetY
        z == p.z - cam.targetZ
        cosT == Cos(cam.theta)
        sinT == Sin(cam.theta)
        x2 == RoundDiv(x * cosT - z * sinT, TrigScale)
        z2 == RoundDiv(x * sinT + z * cosT, TrigScale)
        cosP == Cos(cam.phi)
        sinP == Sin(cam.phi)
        y3 == RoundDiv(y * cosP - z2 * sinP, TrigScale)
        z3 == RoundDiv(y * sinP + z2 * cosP, TrigScale)
        zFinal == z3 - cam.radius
        scale == RoundDiv(fov * Scale, fov - zFinal)
    IN  IF zFinal > 0 THEN NoPoint
        ELSE [hit |-> TRUE,
              x |-> width \div 2 + RoundDiv(x2 * scale, Scale),
              y |-> height \div 2 - RoundDiv(y3 * scale, Scale),
              z |-> zFinal]

\* worldToScreen: the screen point of world point p, or null (NoPoint) behind the camera
worldToScreen(cam, p, width, height) ==
    LET x == p.x - cam.targetX
        y == p.y - cam.targetY
        z == p.z - cam.targetZ
        cosT == Cos(cam.theta)
        sinT == Sin(cam.theta)
        x2 == RoundDiv(x * cosT - z * sinT, TrigScale)
        z2 == RoundDiv(x * sinT + z * cosT, TrigScale)
        cosP == Cos(cam.phi)
        sinP == Sin(cam.phi)
        y3 == RoundDiv(y * cosP - z2 * sinP, TrigScale)
        z3 == RoundDiv(y * sinP + z2 * cosP, TrigScale)
        zFinal == z3 - cam.radius
        scale == RoundDiv(fov * Scale, fov - zFinal)
    IN  IF zFinal >= 0 THEN NoPoint
        ELSE [hit |-> TRUE,
              x |-> width \div 2 + RoundDiv(x2 * scale, Scale),
              y |-> height \div 2 - RoundDiv(y3 * scale, Scale),
              z |-> zFinal]

NoProbe == [done |-> FALSE, p |-> [x |-> 0, y |-> 0, z |-> 0], screen |-> NoPoint]

NoLabels == [liftKite |-> NoPoint, rotor |-> NoPoint, trpt |-> NoPoint,
             generator |-> NoPoint]

NoScene == [rotation |-> 0, kiteOscillation |-> 0, kiteAnchorS |-> NoPoint,
            rotorCentreS |-> NoPoint, trptCentreS |-> NoPoint, rotorPoint |-> NoPoint,
            trptPoint |-> NoPoint, genS |-> NoPoint]

\* the camera as constructed, nothing drawn yet
InitView ==
    /\ cameraState = InitialCamera
    /\ mouseState = InitialMouse
    /\ probe = NoProbe
    /\ drawQueue = <<>>
    /\ painted = <<>>
    /\ labels = NoLabels
    /\ scene = NoScene

\* ------------------------------------------------------------ initial state

\* the component as constructed: useState and useRef initial values
Construction ==
    [envWindSpeed |-> 12, torque |-> 50 * Scale, isAutoPilot |-> FALSE,
     bladeCount |-> 6, bladeLengthOut |-> 380, bladeLengthIn |-> 230,
     physicsState |-> [rpm |-> 0, tsr |-> 0, kw |-> 0, compressionRisk |-> FALSE,
                       overspeedRisk |-> FALSE, isRunaway |-> FALSE,
                       optimalTsr |-> 4 * Scale],
     deploymentRef |-> DeployScale,
     frame |-> [ran |-> FALSE, windSpeed |-> 12, depl |-> DeployScale,
                autoPilotActs |-> FALSE, currentTorque |-> 50 * Scale, targetTSR |-> 0,
                before |-> [tsr |-> 0, kw |-> 0, isRunaway |-> FALSE]]]

RECURSIVE Frames(_, _)
\* n animation frames of 16 ms in a row
Frames(s, n) == IF n = 0 THEN s ELSE Frames(Tick(s, 16), n - 1)

\* The rotor spun up: the state the program is in after the first render, the wind
\* slider moved to 25, the torque slider moved to 100 (each followed by the render
\* effect's own tick) and SpinUpFrames animation frames.  The power saturates two
\* ticks later.  Spec starts here as well as at Construction, so that TLC meets the
\* runaway latch within MaxTicks.
SpunUp ==
    LET mounted == Tick(Construction, 16)
        windy == Tick([mounted EXCEPT !.envWindSpeed = 25], 16)
        braked == Tick([windy EXCEPT !.torque = 100 * Scale], 16)
    IN  Frames(braked, SpinUpFrames)

NoSample == [ran |-> FALSE, deployment |-> DeployScale, windSpeed |-> 12,
             isRunaway |-> FALSE, tsr |-> 0, optimal |-> 4 * Scale,
             status |-> "Initializing", grounded |-> FALSE]

\* the fields of the program state that Tick works on
Program ==
    [envWindSpeed |-> envWindSpeed, torque |-> torque, isAutoPilot |-> isAutoPilot,
     bladeCount |-> bladeCount, bladeLengthOut |-> bladeLengthOut,
     bladeLengthIn |-> bladeLengthIn, physicsState |-> physicsState,
     deploymentRef |-> deploymentRef, frame |-> frame]

InitUi ==
    /\ uiRpm = 0
    /\ uiTsr = 0
    /\ uiStatus = "Initializing"
    /\ uiRunaway = FALSE
    /\ uiGrounded = FALSE
    /\ sample = NoSample
    /\ lastInput = [control |-> "none", value |-> 0]
    /\ ticks = 0
    /\ inputs = 0

\* the program state is s
Load(s) ==
    /\ envWindSpeed = s.envWindSpeed
    /\ torque = s.torque
    /\ isAutoPilot = s.isAutoPilot
    /\ bladeCount = s.bladeCount
    /\ bladeLengthOut = s.bladeLengthOut
    /\ bladeLengthIn = s.bladeLengthIn
    /\ physicsState = s.physicsState
    /\ deploymentRef = s.deploymentRef
    /\ frame = s.frame

\* before the first run of the effects: nothing is registered, both effects are due
Unstarted ==
    [mounted |-> TRUE, started |-> FALSE, intervalPending |-> TRUE, frameRequests |-> 0,
     resizeListeners |-> 0, uiTimers |-> 0, lastTickBy |-> "none"]

\* the loop running: one animation-frame request outstanding, the resize listener and
\* the uiInterval timer registered, the last tick run by the animation-frame callback
Running ==
    [mounted |-> TRUE, started |-> TRUE, intervalPending |-> FALSE, frameRequests |-> 1,
     resizeListeners |-> 1, uiTimers |-> 1, lastTickBy |-> "animationFrame"]

Init ==
    /\ \/ Load(Construction) /\ effectPending = TRUE /\ loop = Unstarted
       \/ Load(SpunUp) /\ effectPending = FALSE /\ loop = Running
    /\ InitUi
    /\ InitView

\* ------------------------------------------------------------ the loop

\* render() called: the program state moves by one tick
Rendered(dt) ==
    LET s == Tick(Program, dt)
    IN  /\ deploymentRef' = s.deploymentRef
        /\ physicsState' = s.physicsState
        /\ torque' = s.torque
        /\ frame' = s.frame
        /\ effectPending' = (s.torque # torque)     \* torque is a dependency of the effect
        /\ UNCHANGED <<reactInputs, reactUi, sample, lastInput, inputs>>

\* a tick of the physics; the drawing is left out
render(dt) == Rendered(dt) /\ ticks' = ticks + 1 /\ UNCHANGED viewVars

\* the browser takes the outstanding request and calls render, whose last statement is
\* frameId.current = requestAnimationFrame(render)
FrameCallback(l) ==
    [l EXCEPT !.frameRequests = (@ - 1) + 1, !.lastTickBy = "animationFrame"]

\* RenderCleanup without cancelAnimationFrame
RenderCleanup_NoCancel(l) ==
    IF l.started
    THEN [l EXCEPT !.resizeListeners = @ - 1]
    ELSE l

\* the cleanup of the render effect: cancelAnimationFrame(frameId.current) (the handle
\* of the latest request) and removeEventListener('resize', handleResize)
RenderCleanup(l) ==
    IF l.started
    THEN [l EXCEPT !.frameRequests = Max(0, @ - 1), !.resizeListeners = @ - 1]
    ELSE l

\* the cleanup of the interval effect: clearInterval(uiInterval)
IntervalCleanup(l) ==
    IF l.started THEN [l EXCEPT !.uiTimers = @ - 1] ELSE l

\* the interval effect runs (again) when envWindSpeed or isAutoPilot changed: its
\* cleanup, then setInterval
IntervalEffect(l) ==
    IF l.intervalPending
    THEN [IntervalCleanup(l) EXCEPT !.uiTimers = @ + 1, !.intervalPending = FALSE]
    ELSE l

\* the effects of one commit: the interval effect if due, then the render effect: its
\* cleanup, addEventListener('resize', handleResize), render() called directly, which
\* requests an animation frame
EffectsRun(l) ==
    [RenderCleanup(IntervalEffect(l)) EXCEPT
        !.resizeListeners = @ + 1, !.frameRequests = @ + 1,
        !.started = TRUE, !.lastTickBy = "effect"]

\* requestAnimationFrame(render): the scheduled callback runs
AnimationFrame ==
    /\ ~effectPending
    /\ loop.frameRequests > 0
    /\ ticks < MaxTicks
    /\ loop' = FrameCallback(loop)
    /\ \E dt \in DtValues : render(dt)

\* the render effect runs (again): its body ends with a direct call of render()
RenderEffect ==
    /\ effectPending
    /\ ticks < MaxTicks
    /\ loop' = EffectsRun(loop)
    /\ \E dt \in DtValues : render(dt)

\* the component unmounts: the cleanups of both effects run
Unmount ==
    /\ loop.mounted
    /\ ~effectPending
    /\ loop' = [RenderCleanup(IntervalCleanup(loop)) EXCEPT !.mounted = FALSE]
    /\ UNCHANGED <<reactInputs, reactUi, torque, physicsState, deploymentRef, frame,
                   sample, effectPending, lastInput, viewVars, ticks, inputs>>

\* ------------------------------------------------------------ the sampler

\* number.toFixed(1) of rpm and number.toFixed(2) of tsr
ToFixed1(rpm) == RoundDiv(rpm, 10)
ToFixed2(tsr) == RoundDiv(tsr, 100)

\* UiGrounded with the threshold at 0.6
UiGrounded_Below06(deployment) == deployment * 10 < 6 * DeployScale

\* setUiGrounded(deploymentRef.current < 0.1)
UiGrounded(deployment) == deployment * 10 < DeployScale

\* the setInterval callback (every 100 ms)
uiInterval ==
    LET status == Status(deploymentRef, physicsState.isRunaway, envWindSpeed,
                         physicsState.tsr, physicsState.optimalTsr)
    IN  /\ ~effectPending
        /\ loop.uiTimers > 0
        /\ ticks < MaxTicks
        /\ uiRpm' = ToFixed1(physicsState.rpm)
        /\ uiTsr' = ToFixed2(physicsState.tsr)
        /\ uiRunaway' = physicsState.isRunaway
        /\ uiGrounded' = UiGrounded(deploymentRef)
        /\ uiStatus' = status
        /\ sample' = [ran |-> TRUE, deployment |-> deploymentRef,
                      windSpeed |-> envWindSpeed,
                      isRunaway |-> physicsState.isRunaway,
                      tsr |-> physicsState.tsr, optimal |-> physicsState.optimalTsr,
                      status |-> status,
                      grounded |-> UiGrounded(deploymentRef)]
        \* uiStatus, uiTsr and uiRpm are dependencies of the render effect
        /\ effectPending' = (uiStatus' # uiStatus \/ uiTsr' # uiTsr \/ uiRpm' # uiRpm)
        /\ UNCHANGED <<reactInputs, torque, physicsState, deploymentRef, frame, loop,
                       lastInput, viewVars, ticks, inputs>>

\* ------------------------------------------------------------ input handlers

InputAllowed == loop.mounted /\ ~effectPending /\ ticks < MaxTicks /\ inputs < MaxInputs

\* wind slider onChange
SetEnvWindSpeed(v) ==
    /\ InputAllowed
    /\ v # envWindSpeed
    /\ envWindSpeed' = v
    /\ lastInput' = [control |-> "wind", value |-> v]
    /\ effectPending' = TRUE
    /\ loop' = [loop EXCEPT !.intervalPending = TRUE]   \* a dependency of the interval effect
    /\ inputs' = inputs + 1
    /\ UNCHANGED <<torque, isAutoPilot, bladeCount, bladeLengthOut, bladeLengthIn,
                   reactUi, physicsState, deploymentRef, frame, sample, viewVars,
                   ticks>>

\* TorqueOnChange without the handler's autopilot test
TorqueOnChange_AlwaysSets(v) ==
    /\ torque' = v * Scale
    /\ effectPending' = (torque' # torque)
    /\ lastInput' = [control |-> "torque", value |-> v]
    /\ inputs' = inputs + 1
    /\ UNCHANGED <<reactInputs, reactUi, physicsState, deploymentRef, frame, sample, loop,
                   viewVars, ticks>>

\* the onChange handler of the torque slider: !isAutoPilot && setTorque(parseInt(value))
TorqueOnChange(v) ==
    /\ IF isAutoPilot
       THEN UNCHANGED <<torque, effectPending>>
       ELSE torque' = v * Scale /\ effectPending' = (torque' # torque)
    /\ lastInput' = [control |-> "torque", value |-> v]
    /\ inputs' = inputs + 1
    /\ UNCHANGED <<reactInputs, reactUi, physicsState, deploymentRef, frame, sample, loop,
                   viewVars, ticks>>

\* disabled={isAutoPilot || uiRunaway || uiGrounded}
TorqueSliderDisabled == isAutoPilot \/ uiRunaway \/ uiGrounded

\* the torque slider moved: a disabled slider fires no event
SetTorque(v) ==
    /\ InputAllowed
    /\ ~TorqueSliderDisabled
    /\ v * Scale # torque
    /\ TorqueOnChange(v)

\* a change event that reaches the handler of the torque slider while autopilot is on
\* (the disabled attribute aside, which alone would keep the event away)
TorqueEventUnderAutoPilot(v) ==
    /\ InputAllowed
    /\ isAutoPilot
    /\ TorqueOnChange(v)

\* autopilot button onClick; the button is disabled while uiRunaway or uiGrounded
ToggleAutoPilot ==
    /\ InputAllowed
    /\ ~(uiRunaway \/ uiGrounded)
    /\ isAutoPilot' = ~isAutoPilot
    /\ lastInput' = [control |-> "autopilot", value |-> IF isAutoPilot THEN 0 ELSE 1]
    /\ effectPending' = TRUE
    /\ loop' = [loop EXCEPT !.intervalPending = TRUE]   \* a dependency of the interval effect
    /\ inputs' = inputs + 1
    /\ UNCHANGED <<envWindSpeed, torque, bladeCount, bladeLengthOut, bladeLengthIn,
                   reactUi, physicsState, deploymentRef, frame, sample, viewVars,
                   ticks>>

SetBladeCount(v) ==
    /\ InputAllowed
    /\ v # bladeCount
    /\ bladeCount' = v
    /\ lastInput' = [control |-> "bladeCount", value |-> v]
    /\ effectPending' = TRUE
    /\ loop' = loop
    /\ inputs' = inputs + 1
    /\ UNCHANGED <<envWindSpeed, torque, isAutoPilot, bladeLengthOut, bladeLengthIn,
                   reactUi, physicsState, deploymentRef, frame, sample, viewVars,
                   ticks>>

SetBladeLengthOut(v) ==
    /\ InputAllowed
    /\ v # bladeLengthOut
    /\ bladeLengthOut' = v
    /\ lastInput' = [control |-> "bladeLengthOut", value |-> v]
    /\ effectPending' = TRUE
    /\ loop' = loop
    /\ inputs' = inputs + 1
    /\ UNCHANGED <<envWindSpeed, torque, isAutoPilot, bladeCount, bladeLengthIn,
                   reactUi, physicsState, deploymentRef, frame, sample, viewVars,
                   ticks>>

SetBladeLengthIn(v) ==
    /\ InputAllowed
    /\ v # bladeLengthIn
    /\ bladeLengthIn' = v
    /\ lastInput' = [control |-> "bladeLengthIn", value |-> v]
    /\ effectPending' = TRUE
    /\ loop' = loop
    /\ inputs' = inputs + 1
    /\ UNCHANGED <<envWindSpeed, torque, isAutoPilot, bladeCount, bladeLengthOut,
                   reactUi, physicsState, deploymentRef, frame, sample, viewVars,
                   ticks>>

\* ------------------------------------------------------------ specification

Next ==
    \/ AnimationFrame
    \/ RenderEffect
    \/ uiInterval
    \/ \E v \in WindValues : SetEnvWindSpeed(v)
    \/ \E v \in TorqueValues : SetTorque(v)
    \/ ToggleAutoPilot
    \/ \E v \in BladeCountValues : SetBladeCount(v)
    \/ \E v \in BladeLengthOutValues : SetBladeLengthOut(v)
    \/ \E v \in BladeLengthInValues : SetBladeLengthIn(v)

Spec == Init /\ [][Next]_vars

\* ------------------------------------------------------------ the mouse

\* clientX / clientY of mouse events, and deltaY of wheel events
ClientValues == {0, 100, 500}
WheelValues == {-5000, -100, 100, 5000}

\* ClampPhi without the clamp
ClampPhi_Unclamped(nextPhi) == nextPhi

\* Math.max(-1.5, Math.min(1.5, nextPhi))
ClampPhi(nextPhi) == Max(-1500, Min(1500, nextPhi))

\* ClampRadius without the lower limit
ClampRadius_NoMinimum(radius) == Min(20000, radius)

\* Math.max(200, Math.min(20000, radius))
ClampRadius(radius) == Max(200, Min(20000, radius))

MouseEventAllowed == loop.mounted /\ inputs < MaxMouseEvents

\* onMouseDown: panning with the right button or the shift key
handleMouseDown(panning, clientX, clientY) ==
    /\ MouseEventAllowed
    /\ mouseState' = [isDragging |-> TRUE, isPanning |-> panning,
                      lastX |-> clientX, lastY |-> clientY]
    /\ inputs' = inputs + 1
    /\ UNCHANGED <<simVars, cameraState, probe, drawQueue, painted, labels, scene, ticks>>

\* onMouseMove
handleMouseMove(clientX, clientY) ==
    /\ MouseEventAllowed
    /\ IF ~mouseState.isDragging
       THEN UNCHANGED <<cameraState, mouseState>>
       ELSE LET deltaX == clientX - mouseState.lastX
                deltaY == clientY - mouseState.lastY
                panFactor == 3
                cosT == Cos(cameraState.theta)
                sinT == Sin(cameraState.theta)
                nextPhi == cameraState.phi - deltaY * 5      \* 0.005 rad per pixel
            IN  /\ cameraState' =
                       IF mouseState.isPanning
                       THEN [cameraState EXCEPT
                                !.targetX = @ - RoundDiv(deltaX * panFactor * cosT, TrigScale),
                                !.targetZ = @ + RoundDiv(deltaX * panFactor * sinT, TrigScale),
                                !.targetY = @ + deltaY * panFactor]
                       ELSE [cameraState EXCEPT
                                !.theta = @ + deltaX * 5,
                                !.phi = ClampPhi(nextPhi)]
                /\ mouseState' = [mouseState EXCEPT !.lastX = clientX, !.lastY = clientY]
    /\ inputs' = inputs + 1
    /\ UNCHANGED <<simVars, probe, drawQueue, painted, labels, scene, ticks>>

\* onMouseUp and onMouseLeave
handleMouseUp ==
    /\ MouseEventAllowed
    /\ mouseState' = [mouseState EXCEPT !.isDragging = FALSE, !.isPanning = FALSE]
    /\ inputs' = inputs + 1
    /\ UNCHANGED <<simVars, cameraState, probe, drawQueue, painted, labels, scene, ticks>>

\* onWheel: zoomSpeed = 4
handleWheel(deltaY) ==
    /\ MouseEventAllowed
    /\ cameraState' = [cameraState EXCEPT !.radius = ClampRadius(@ + deltaY * 4)]
    /\ inputs' = inputs + 1
    /\ UNCHANGED <<simVars, mouseState, probe, drawQueue, painted, labels, scene, ticks>>

InitCamera ==
    Load(Construction) /\ effectPending = FALSE /\ loop = Running /\ InitUi /\ InitView

NextCamera ==
    \/ \E panning \in BOOLEAN, x \in ClientValues, y \in ClientValues :
          handleMouseDown(panning, x, y)
    \/ \E x \in ClientValues, y \in ClientValues : handleMouseMove(x, y)
    \/ handleMouseUp
    \/ \E deltaY \in WheelValues : handleWheel(deltaY)

\* the mouse handlers of the canvas, from the initial camera pose
SpecCamera == InitCamera /\ [][NextCamera]_vars

\* ------------------------------------------------------------ the projection alone

\* Camera poses the mouse handlers lead to: the initial pose; zoomed in on the ground
\* station, facing it; zoomed in on the axis of the turbine between the TRPT rings at
\* 1560 and 2090, looking up the axis and looking down the axis; pitched and zoomed
\* out to both limits.
CameraPoses ==
    {InitialCamera,
     [theta |-> 3143, phi |-> 0, radius |-> 200,
      targetY |-> 139, targetX |-> 0, targetZ |-> 300],
     [theta |-> 3143, phi |-> -525, radius |-> 200,
      targetY |-> 1180, targetX |-> 0, targetZ |-> 1559],
     [theta |-> 3, phi |-> 525, radius |-> 200,
      targetY |-> 1180, targetX |-> 0, targetZ |-> 1559],
     [theta |-> 3403, phi |-> 1500, radius |-> 20000,
      targetY |-> 2500, targetX |-> -850, targetZ |-> 1500]}

\* world points on both sides of the camera plane of each pose, and on it
ProbeXs == {-850, 0}
ProbeYs == {0, 139, 2500}
ProbeZs == {-20000, 0, 100, 101, 1500, 20000}

InitProjection ==
    /\ Load(Construction) /\ effectPending = FALSE /\ loop = Running /\ InitUi
    /\ cameraState \in CameraPoses
    /\ mouseState = InitialMouse
    /\ \E x \in ProbeXs, y \in ProbeYs, z \in ProbeZs :
           probe = [done |-> FALSE, p |-> [x |-> x, y |-> y, z |-> z], screen |-> NoPoint]
    /\ drawQueue = <<>>
    /\ painted = <<>>
    /\ labels = NoLabels
    /\ scene = NoScene

\* worldToScreen applied to the point
Project ==
    /\ ~probe.done
    /\ probe' = [probe EXCEPT
                     !.done = TRUE,
                     !.screen = worldToScreen(cameraState, probe.p, CanvasWidth,
                                              CanvasHeight)]
    /\ UNCHANGED <<simVars, cameraState, mouseState, drawQueue, painted, labels, scene,
                   ticks, inputs>>

NextProjection == Project

\* worldToScreen applied to every point of the grid under every pose
SpecProjection == InitProjection /\ [][NextProjection]_vars

\* ------------------------------------------------------------ the drawing

MAX_BASE_OFFSET_Y == 280
ROTOR_RADIUS_SCALE == 1050
\* 60 degrees and Math.PI / 2 in 1/1000 rad
FLYING_TILT == 1047
GROUND_TILT == 1571
\* depth keys are in 1/DepthScale world units: a tether's key is the mean of two depths
DepthScale == 2

Point(x, y, z) == [x |-> x, y |-> y, z |-> z]

\* GROUND_TILT + (FLYING_TILT - GROUND_TILT) * depl
currentTilt(depl) == GROUND_TILT + RoundDiv((FLYING_TILT - GROUND_TILT) * depl, DeployScale)
\* 20 + (MAX_BASE_OFFSET_Y - 20) * depl
currentBaseY(depl) == 20 + RoundDiv((MAX_BASE_OFFSET_Y - 20) * depl, DeployScale)
\* 0.05 + 0.95 * depl, in 1/DeployScale
distScale(depl) == 5000 + RoundDiv(95 * depl, 100)
\* a length along the turbine axis times distScale
Scaled(y, depl) == RoundDiv(y * distScale(depl), DeployScale)

transformPointRotation(depl, p) ==
    LET c == Cos(currentTilt(depl))
        s == Sin(currentTilt(depl))
    IN  Point(p.x, RoundDiv(p.y * c - p.z * s, TrigScale),
              RoundDiv(p.y * s + p.z * c, TrigScale))

getTurbineWorldPos(depl, p) ==
    LET rotated == transformPointRotation(depl, p)
    IN  Point(rotated.x, rotated.y + currentBaseY(depl), rotated.z)

\* y and r of the layers of structureDefRaw
structureDefRaw ==
    <<[y |-> 0, r |-> 180], [y |-> 500, r |-> 180], [y |-> 1030, r |-> 180],
      [y |-> 1560, r |-> 180], [y |-> 2090, r |-> 180], [y |-> 2620, r |-> 180],
      [y |-> 3150, r |-> 180], [y |-> 4200, r |-> 566],
      [y |-> 5000, r |-> ROTOR_RADIUS_SCALE], [y |-> 5530, r |-> 566],
      [y |-> 6000, r |-> 44]>>

\* computedLayers[lIdx]: the screen points of the ring of layer lIdx + 1
computedLayer(cam, depl, currentTorque, count, rotation, l) ==
    LET layerY == Scaled(structureDefRaw[l].y, depl)
        r == structureDefRaw[l].r
        twistFactor == RoundDiv(currentTorque * 23, Scale)        \* torque / 100 * 2.3 rad
        effectiveTwistFactor == RoundDiv(twistFactor * depl, DeployScale)
        effectiveHeight == Min(layerY, Scaled(5000, depl))
        twistAmount == RoundDiv(effectiveHeight * effectiveTwistFactor,
                                IF Scaled(5000, depl) = 0 THEN 1 ELSE Scaled(5000, depl))
        netTwist == -twistAmount
    IN  [i \in 1..count |->
            LET baseAngle == RoundDiv((i - 1) * 2 * Pi, count)
                angle == baseAngle + rotation + netTwist
                localP3 == Point(RoundDiv(Cos(angle) * r, TrigScale), layerY,
                                 RoundDiv(Sin(angle) * r, TrigScale))
            IN  worldToScreen(cam, getTurbineWorldPos(depl, localP3), CanvasWidth,
                              CanvasHeight)]

\* layer.find(p => p !== null)?.p2
RECURSIVE find(_)
find(points) ==
    IF points = <<>> THEN NoPoint
    ELSE IF Head(points).hit THEN Head(points) ELSE find(Tail(points))

\* the label is the target point, or null
getLabelData(cam, depl, centerY, targetS) ==
    LET centerS == worldToScreen(cam, getTurbineWorldPos(depl, Point(0, centerY, 0)),
                                 CanvasWidth, CanvasHeight)
    IN  IF ~targetS.hit THEN NoPoint
        ELSE IF ~centerS.hit THEN NoPoint
        ELSE targetS

\* the screen points render computes for the labels: s is the program after the
\* physics of this frame
Scene(s, cam, rotation, kiteOscillation) ==
    LET depl == s.frame.depl
        centre(y) == worldToScreen(cam, getTurbineWorldPos(depl, Point(0, y, 0)),
                                   CanvasWidth, CanvasHeight)
        layer(l) == computedLayer(cam, depl, s.frame.currentTorque, s.bladeCount,
                                  rotation, l)
    IN  [rotation |-> rotation,
         kiteOscillation |-> kiteOscillation,
         kiteAnchorS |->
             worldToScreen(cam,
                           getTurbineWorldPos(depl, Point(kiteOscillation,
                                                          Scaled(9000, depl), 0)),
                           CanvasWidth, CanvasHeight),
         rotorCentreS |-> centre(Scaled(5000, depl)),
         trptCentreS |-> centre(Scaled(2090, depl)),
         rotorPoint |-> find(layer(9)),
         trptPoint |-> find(layer(4)),
         genS |-> worldToScreen(cam, Point(0, MAX_BASE_OFFSET_Y \div 2, 0), CanvasWidth,
                                CanvasHeight)]

\* the argument of setLabels
Labels(s, cam, sc) ==
    [liftKite |-> sc.kiteAnchorS,
     rotor |-> getLabelData(cam, s.frame.depl, Scaled(5000, s.frame.depl), sc.rotorPoint),
     trpt |-> getLabelData(cam, s.frame.depl, Scaled(2090, s.frame.depl), sc.trptPoint),
     generator |-> sc.genS]

\* drawQueue.push({z, draw}) if the points it needs project
Push(needed, name, key, n) ==
    IF \A p \in needed : p.hit
    THEN <<[name |-> name, z |-> key, frame |-> n, seq |-> 0]>>
    ELSE <<>>

\* drawCylinder, drawDisk and drawBox push when the centre projects
drawCylinder(cam, start, end, name, n) ==
    LET center == Point(RoundDiv(start.x + end.x, 2), RoundDiv(start.y + end.y, 2),
                        RoundDiv(start.z + end.z, 2))
        sc == worldToScreen(cam, center, CanvasWidth, CanvasHeight)
    IN  Push({sc}, name, DepthScale * sc.z, n)

drawDisk(cam, center, name, n) ==
    LET sc == worldToScreen(cam, center, CanvasWidth, CanvasHeight)
    IN  Push({sc}, name, DepthScale * sc.z, n)

drawBox(cam, center, name, n) ==
    LET sc == worldToScreen(cam, center, CanvasWidth, CanvasHeight)
    IN  Push({sc}, name, DepthScale * sc.z, n)

\* the ring of layer l and the tethers from it to the next layer
RECURSIVE RingsAndTethers(_, _, _, _)
RingsAndTethers(cam, depl, l, n) ==
    IF l > Len(structureDefRaw) THEN <<>>
    ELSE LET centre(k) ==
                 worldToScreen(cam,
                               getTurbineWorldPos(depl,
                                                  Point(0, Scaled(structureDefRaw[k].y, depl),
                                                        0)),
                               CanvasWidth, CanvasHeight)
             centerS == centre(l)
             ring == Push({centerS}, <<"ring", l>>, DepthScale * centerS.z, n)
             tethers ==
                 IF centerS.hit /\ l < Len(structureDefRaw)
                 THEN Push({centre(l + 1)}, <<"tethers", l>>,
                           centerS.z + centre(l + 1).z, n)
                 ELSE <<>>
         IN  ring \o tethers \o RingsAndTethers(cam, depl, l + 1, n)

\* the commands render pushes in frame n, in the order of the pushes
Enqueued(s, cam, sc, n) ==
    LET depl == s.frame.depl
        batteryPos == Point(-300, 50, 200)
        cableStart == Point(0, 50, 0)
        cableEnd == Point(batteryPos.x + 40, batteryPos.y + 50, batteryPos.z)
        cableControl == Point(RoundDiv(cableStart.x + cableEnd.x, 2), 20,
                              RoundDiv(cableStart.z + cableEnd.z, 2))
        cs == worldToScreen(cam, cableStart, CanvasWidth, CanvasHeight)
        ce == worldToScreen(cam, cableEnd, CanvasWidth, CanvasHeight)
        cc == worldToScreen(cam, cableControl, CanvasWidth, CanvasHeight)
        batScreen == worldToScreen(cam, [batteryPos EXCEPT !.y = 150], CanvasWidth,
                                   CanvasHeight)
        bearingCenterS ==
            worldToScreen(cam, getTurbineWorldPos(depl, Point(0, Scaled(6000, depl), 0)),
                          CanvasWidth, CanvasHeight)
    IN  drawCylinder(cam, Point(0, -400, 0), Point(0, -20, 0), "pile", n)
        \o drawDisk(cam, Point(0, -400, 0), "footing", n)
        \o drawDisk(cam, Point(0, 5, 0), "pad", n)
        \o drawCylinder(cam, Point(0, 5, 0), Point(0, currentBaseY(depl), 0), "mast", n)
        \o drawCylinder(cam, Point(0, -180, 0), Point(0, -20, 0), "motor", n)
        \o drawBox(cam, batteryPos, "battery", n)
        \o drawBox(cam, [batteryPos EXCEPT !.y = 105], "batteryTop", n)
        \o Push({cs, ce, cc}, "cable", DepthScale * cs.z, n)
        \o (IF s.physicsState.kw > 0
            THEN Push({batScreen}, "bolt", DepthScale * (batScreen.z - 100), n)
            ELSE <<>>)
        \o Push({sc.kiteAnchorS}, "kite", DepthScale * sc.kiteAnchorS.z, n)
        \o Push({sc.kiteAnchorS, bearingCenterS}, "kiteLine",
                sc.kiteAnchorS.z + bearingCenterS.z, n)
        \o RingsAndTethers(cam, depl, 1, n)

\* each command with its place in the order of the pushes
Numbered(q) == [i \in 1..Len(q) |-> [q[i] EXCEPT !.seq = i]]

\* c put behind the commands of q whose key is not above its own
RECURSIVE Insert(_, _)
Insert(q, c) ==
    IF q = <<>> THEN <<c>>
    ELSE IF c.z < Head(q).z THEN <<c>> \o q
    ELSE <<Head(q)>> \o Insert(Tail(q), c)

\* sort that leaves the queue as it is
sort_AsEnqueued(q) == q

\* drawQueue.sort((a, b) => a.z - b.z): Array.prototype.sort is stable
RECURSIVE sort(_)
sort(q) ==
    IF q = <<>> THEN <<>>
    ELSE Insert(sort(SubSeq(q, 1, Len(q) - 1)), q[Len(q)])

\* drawQueue.forEach(item => item.draw()): the calls of draw, in order
RECURSIVE forEach(_, _)
forEach(q, calls) ==
    IF q = <<>> THEN calls ELSE forEach(Tail(q), Append(calls, Head(q)))

\* rotationRef.current and Math.sin(Date.now() * 0.001) * 100 * depl when a frame is
\* drawn: the rotor angle is whatever the frames so far have added up to, the
\* oscillation follows the wall clock
RotationValues == {0, 785}
OscillationValues == {-100, 100}

\* the drawing part of render: a new queue, the pushes, the sort, the flush, the labels
Draw(s, rotation, oscillation) ==
    LET kiteOscillation == RoundDiv(oscillation * s.frame.depl, DeployScale)
        sc == Scene(s, cameraState, rotation, kiteOscillation)
        flushed == sort(Numbered(Enqueued(s, cameraState, sc, ticks + 1)))
    IN  /\ scene' = sc
        /\ drawQueue' = flushed
        /\ painted' = forEach(flushed, <<>>)
        /\ labels' = Labels(s, cameraState, sc)
        /\ UNCHANGED <<cameraState, mouseState, probe>>

\* an animation frame: the physics and the drawing
ViewFrame ==
    /\ ~effectPending
    /\ loop.frameRequests > 0
    /\ ticks < MaxViewFrames
    /\ loop' = FrameCallback(loop)
    /\ ticks' = ticks + 1
    /\ \E dt \in DtValues, rotation \in RotationValues, oscillation \in OscillationValues :
           Rendered(dt) /\ Draw(Tick(Program, dt), rotation, oscillation)

\* ------------------------------------------------------------ mount to unmount

InitLifecycle ==
    Load(Construction) /\ effectPending = TRUE /\ loop = Unstarted /\ InitUi /\ InitView

NextLifecycle == Next \/ Unmount

\* the component from its mount to its unmount, which may come at any frame boundary
SpecLifecycle == InitLifecycle /\ [][NextLifecycle]_vars

\* ------------------------------------------------------------ the rotor cruising

\* The rotor cruising: the state the program is in after the first render and
\* CruiseFrames animation frames at the default settings.  tsr has passed the optimal
\* TSR on its way to the target and is 0.15 above it: the autopilot, once switched on,
\* finds a positive error, within its dead-band for the first three ticks (inputs
\* get in between) and beyond it from the fourth.
Cruising == Frames(Tick(Construction, 16), CruiseFrames)

InitAutoPilot ==
    Load(Cruising) /\ effectPending = FALSE /\ loop = Running /\ InitUi /\ InitView

NextAutoPilot == Next \/ \E v \in TorqueValues : TorqueEventUnderAutoPilot(v)

\* the component's event loop, started with the rotor cruising, with change events
\* delivered to the torque slider's handler under autopilot too
SpecAutoPilot == InitAutoPilot /\ [][NextAutoPilot]_vars

\* ------------------------------------------------------------ wind at the release threshold

\* The rotor after the first render, the wind slider moved to 18 (followed by the render
\* effect's own tick) and BreezeFrames animation frames, everything else as constructed.
Breezy ==
    LET mounted == Tick(Construction, 16)
        breeze == Tick([mounted EXCEPT !.envWindSpeed = 18], 16)
    IN  Frames(breeze, BreezeFrames)

InitBreeze ==
    /\ Load(Breezy)
    /\ effectPending = FALSE
    /\ loop = Running
    /\ InitUi
    /\ InitView

\* the program from a rotor that has spun up at wind 18
SpecBreeze == InitBreeze /\ [][Next]_vars

\* ------------------------------------------------------------ frames as drawn

\* the turbine on the ground: the wind slider at 0 for three seconds
Landed == Frames(Tick(Tick([Cruising EXCEPT !.envWindSpeed = 0], 2500), 1000), 2)

InitViewed ==
    /\ \E s \in {Cruising, Landed} : Load(s)
    /\ effectPending = FALSE
    /\ loop = Running
    /\ InitUi
    /\ cameraState \in CameraPoses
    /\ mouseState = InitialMouse
    /\ probe = NoProbe
    /\ drawQueue = <<>>
    /\ painted = <<>>
    /\ labels = NoLabels
    /\ scene = NoScene

NextView == ViewFrame

\* frames drawn under each camera pose, in flight and on the ground
SpecView == InitViewed /\ [][NextView]_vars

\* ------------------------------------------------------------ the status rule alone

\* values of the fields uiInterval reads, on both sides of each threshold of Status
\* (optimalTsr is 4.3563 for the default blades: 0.6 and 1.25 of it lie between the
\* two middle pairs of tsr values)
SampledDeployments == {0, 9999, 10000, 49999, 50000, DeployScale}
SampledWinds == {0, 3, 4, 18, 19, 25}
SampledTsrs == {0, 26137, 26138, 54453, 54454, 62000}

\* any combination of the values uiInterval reads
InitStatus ==
    /\ \E d \in SampledDeployments, w \in SampledWinds, t \in SampledTsrs,
          r \in BOOLEAN :
           Load([Construction EXCEPT
                    !.deploymentRef = d,
                    !.envWindSpeed = w,
                    !.physicsState.tsr = t,
                    !.physicsState.isRunaway = r,
                    !.physicsState.optimalTsr =
                        currentOptimalTSR(Construction.bladeCount,
                                          Construction.bladeLengthIn,
                                          Construction.bladeLengthOut)])
    /\ effectPending = FALSE
    /\ loop = Running
    /\ InitUi
    /\ InitView

NextStatus == uiInterval

\* the classification applied to every combination of sampled values
SpecStatus == InitStatus /\ [][NextStatus]_vars

\* ------------------------------------------------------------ low wind for ever

LowWindValues == {0, 3}
\* milliseconds between two calls of render in SpecLowWind
LowWindDtValues == {1000, 2500}

\* the wind slider moved to 3 or less
CalmDown == envWindSpeed > 3 /\ \E v \in LowWindValues : SetEnvWindSpeed(v)

\* the render effect's tick, not counted
EffectTick ==
    /\ effectPending
    /\ loop' = EffectsRun(loop)
    /\ \E dt \in LowWindDtValues : Rendered(dt) /\ UNCHANGED <<viewVars, ticks>>

\* an animation frame in low wind, not counted
LowWindFrame ==
    /\ ~effectPending
    /\ envWindSpeed <= 3
    /\ loop.frameRequests > 0
    /\ loop' = FrameCallback(loop)
    /\ \E dt \in LowWindDtValues : Rendered(dt) /\ UNCHANGED <<viewVars, ticks>>

\* the state after construction, the render effect pending
InitLowWind ==
    Load(Construction) /\ effectPending = TRUE /\ loop = Unstarted /\ InitUi /\ InitView

NextLowWind == EffectTick \/ CalmDown \/ LowWindFrame

\* The first render, then the wind slider moved to 3 or less once, and animation
\* frames of any of the durations LowWindDtValues for ever: the browser keeps calling the
\* scheduled callback, and React keeps running a pending effect.
SpecLowWind ==
    /\ InitLowWind
    /\ [][NextLowWind]_vars
    /\ WF_vars(EffectTick)
    /\ WF_vars(LowWindFrame)

\* ------------------------------------------------------------ properties

\* target TSR above 5.8
AboveRunawayTsr(target) == target * 10 > 58 * Scale

\* C1: a tick that turns isRunaway from false to true computed a target TSR above
\* 5.8 and found the stored kw at 30 or more.
C1_RunawayEntryNeedsBoth ==
    (frame.ran /\ ~frame.before.isRunaway /\ physicsState.isRunaway)
        => (AboveRunawayTsr(frame.targetTSR) /\ frame.before.kw >= 30)

C1_Witness ==
    /\ frame.ran /\ ~frame.before.isRunaway /\ physicsState.isRunaway
    /\ AboveRunawayTsr(frame.targetTSR) /\ frame.before.kw >= 30

\* C2: a tick that starts in runaway and reads a wind speed above 18 ends in runaway.
C2_RunawayLatched ==
    (frame.ran /\ frame.before.isRunaway /\ frame.windSpeed > 18)
        => physicsState.isRunaway

C2_Witness ==
    /\ frame.ran /\ frame.before.isRunaway /\ frame.windSpeed > 18
    /\ physicsState.isRunaway

\* C3 (as claimed): a tick that starts in runaway and reads a wind speed of 18 or
\* less ends out of runaway, whatever the deployment and the tick duration.
C3_ClearsAtOrBelow18 ==
    (frame.ran /\ frame.before.isRunaway /\ frame.windSpeed <= 18)
        => ~physicsState.isRunaway

\* C3 (amended): a tick that starts in runaway and reads a wind speed of 18 or less
\* ends out of runaway if its clamped deployment is 0.5 or more, and ends in runaway
\* if its clamped deployment is below 0.5 (the deployment gate skips the release).
C3_ClearsWhenDeployed ==
    (frame.ran /\ frame.before.isRunaway /\ frame.windSpeed <= 18)
        => (physicsState.isRunaway <=> frame.depl * 2 < DeployScale)

C3_Witness ==
    /\ frame.ran /\ frame.before.isRunaway /\ frame.windSpeed <= 18
    /\ frame.depl * 2 >= DeployScale
    /\ ~physicsState.isRunaway

\* C4: kw is an integer in 0..30 and tsr is not negative.
C4_KwAndTsrRange ==
    /\ physicsState.kw \in 0..30
    /\ physicsState.tsr >= 0

C4_Witness ==
    /\ frame.ran
    /\ physicsState.kw = 30
    /\ physicsState.tsr > 0

\* C5: a tick whose clamped deployment is below 0.5 integrates towards target TSR 0
\* and does not increase tsr.
C5_GroundedTargetZero ==
    (frame.ran /\ frame.depl * 2 < DeployScale)
        => (frame.targetTSR = 0 /\ physicsState.tsr <= frame.before.tsr)

C5_Witness ==
    /\ frame.ran /\ frame.depl * 2 < DeployScale
    /\ frame.before.isRunaway /\ frame.windSpeed > 18
    /\ frame.targetTSR = 0 /\ physicsState.tsr < frame.before.tsr

\* C7 (as claimed): the stored deployment state is in [0, 1].
C7_DeploymentInUnitInterval ==
    deploymentRef >= 0 /\ deploymentRef <= DeployScale

\* C9: a sample that reads a deployment below 0.5 reports GROUNDED, in runaway too.
C9_GroundedBeforeRunaway ==
    (sample.ran /\ sample.deployment * 2 < DeployScale) => sample.status = "GROUNDED"

C9_Witness ==
    /\ sample.ran /\ sample.deployment * 2 < DeployScale /\ sample.isRunaway
    /\ sample.status = "GROUNDED"

\* C10 (as claimed): whenever the rotor is in runaway or the system is grounded
\* (the clamped deployment is below 0.5, or the sampled flags say so), the autopilot
\* flag is false.
C10_AutoPilotOffInSafetyState ==
    (\/ physicsState.isRunaway
     \/ Depl(deploymentRef) * 2 < DeployScale
     \/ uiRunaway
     \/ uiGrounded) => ~isAutoPilot

\* the order of the status rules as the specification states it
StatedStatus(deployment, isRunaway, windSpeed, tsr, optimal) ==
    IF deployment * 2 < DeployScale \/ windSpeed <= 3 THEN "GROUNDED"
    ELSE IF isRunaway THEN "RUNAWAY"
    ELSE IF tsr * 10 < optimal * 6 THEN "STALL"
    ELSE IF tsr * 4 > optimal * 5 THEN "OVERSPEED"
    ELSE "OPTIMAL"

C6_DeploymentReachesZero ==
    <>[](envWindSpeed <= 3) => <>[](deploymentRef = 0)

\* one call of render
IsTick == ticks' = ticks + 1

\* C11 (as claimed): a tick with autopilot on that starts with tsr above the optimal
\* TSR has a negative correction (the target torque is below the torque) and does not
\* increase the stored torque.
C11_TorqueEasesDownward ==
    [][(IsTick /\ isAutoPilot /\ physicsState.tsr > physicsState'.optimalTsr)
           => (Min(80 * Scale, torque + 2 * (physicsState.tsr - physicsState'.optimalTsr))
                   < torque
               /\ torque' <= torque)]_vars

\* C11 (amended): a tick with autopilot on that starts with tsr above the optimal TSR
\* has a positive correction 2 * (tsr - optimal); with target = min(80, torque +
\* correction), the stored torque moves towards the target (upwards when the target is
\* above it, downwards when the torque was above 80), by at most 10% of the gap
\* (rounded), and never reaches the target in that tick unless it was there already.
C11_TorqueEasesTowardsTarget ==
    [][(IsTick /\ isAutoPilot /\ physicsState.tsr > physicsState'.optimalTsr)
           => LET correction == 2 * (physicsState.tsr - physicsState'.optimalTsr)
                  target == Min(80 * Scale, torque + correction)
              IN  /\ correction > 0
                  /\ target >= torque => torque' >= torque
                  /\ target <= torque => torque' <= torque
                  /\ 10 * Abs(torque' - torque) <= Abs(target - torque) + 5
                  /\ torque' = target => torque = target]_vars

\* the autopilot has raised the torque in a tick that started with tsr above optimal
C11_Witness ==
    /\ frame.ran /\ isAutoPilot /\ frame.autoPilotActs
    /\ frame.before.tsr > physicsState.optimalTsr
    /\ frame.currentTorque > torque

\* C12 (as claimed): with wind 12, torque 50, autopilot off, 6 blades, outer length 380,
\* inner length 230, the rotor deployed and not in runaway, a tick computes optimalTsr
\* 4.0 and target TSR 5.0 (from maxTsr 6.0 and brakeRatio 0.5) and moves tsr by 5% of
\* its distance to 5.0.
C12_DefaultScenario ==
    [][(/\ IsTick
        /\ envWindSpeed = 12 /\ torque = 50 * Scale /\ ~isAutoPilot
        /\ bladeCount = 6 /\ bladeLengthOut = 380 /\ bladeLengthIn = 230
        /\ frame'.depl * 2 >= DeployScale /\ ~physicsState.isRunaway)
           => (/\ physicsState'.optimalTsr = 4 * Scale
               /\ frame'.targetTSR = 5 * Scale
               /\ physicsState'.tsr
                      = physicsState.tsr + RoundDiv(5 * Scale - physicsState.tsr, 20))]_vars

\* C13 (as claimed): every tick is run by an animation-frame callback, none by
\* anything else, whatever inputs and UI samples come between frames.
C13_TicksOnlyInAnimationFrames ==
    frame.ran => loop.lastTickBy = "animationFrame"

\* C14: at most one animation-frame request is outstanding after every step, restarts
\* of the loop included; once the cleanups have run (unmount) no request, no resize
\* listener and no uiInterval timer is left, and no tick and no status sample runs
\* any more.
C14_CleanupReleasesAll ==
    [][/\ loop'.frameRequests <= 1
       /\ ~loop'.mounted => (/\ loop'.frameRequests = 0
                             /\ loop'.resizeListeners = 0
                             /\ loop'.uiTimers = 0)
       /\ ~loop.mounted => (ticks' = ticks /\ frame' = frame /\ sample' = sample)]_vars

\* unmounted after the loop was restarted by an input and had run animation frames
C14_Witness ==
    /\ ~loop.mounted /\ loop.started
    /\ inputs > 0 /\ ticks > 2
    /\ loop.frameRequests = 0 /\ loop.resizeListeners = 0 /\ loop.uiTimers = 0

\* C19: while autopilot is on, a step changes torque only if it is a tick in which the
\* autopilot correction acts; a change event of the torque slider leaves torque as
\* it is.
C19_ManualTorqueIgnored ==
    [][(isAutoPilot /\ torque' # torque) => (IsTick /\ frame'.autoPilotActs)]_vars

\* a change event has reached the torque slider's handler with autopilot on
C19_Witness ==
    /\ isAutoPilot
    /\ lastInput.control = "torque"
    /\ lastInput.value * Scale # torque

\* C20 (as claimed): in a tick with autopilot on, the torque the physics computes with
\* differs from the torque before the tick by at most 10% (rounded) of the gap between
\* that torque and the clamped target.
C20_PhysicsUsesEasedTorque ==
    [][(IsTick /\ isAutoPilot)
           => LET correction == 2 * (physicsState.tsr - physicsState'.optimalTsr)
                  target == Max(0, Min(80 * Scale, torque + correction))
              IN  10 * Abs(frame'.currentTorque - torque) <= Abs(target - torque) + 5]_vars

\* the camera-space depth of world point p: its coordinate along the rotated view axis
\* minus the camera radius
zCam(cam, p) ==
    LET x == p.x - cam.targetX
        y == p.y - cam.targetY
        z == p.z - cam.targetZ
        alongYaw == RoundDiv(x * Sin(cam.theta) + z * Cos(cam.theta), TrigScale)
    IN  RoundDiv(y * Sin(cam.phi) + alongYaw * Cos(cam.phi), TrigScale) - cam.radius

\* C15: worldToScreen returns null exactly when zCam >= 0; otherwise the screen point
\* has depth zCam and the perspective scale fov / (fov - zCam) is above 0 and below 1.
C15_ProjectsInFrontOnly ==
    probe.done =>
        LET depth == zCam(cameraState, probe.p)
            scale == RoundDiv(fov * Scale, fov - depth)
        IN  /\ ~probe.screen.hit <=> depth >= 0
            /\ probe.screen.hit => (probe.screen.z = depth /\ scale > 0 /\ scale < Scale)

\* a point on the camera plane (zCam = 0) got null
C15_Witness ==
    /\ probe.done
    /\ zCam(cameraState, probe.p) = 0
    /\ ~probe.screen.hit

\* C17: the camera pitch is in [-1.5, 1.5] and the camera radius in [200, 20000].
C17_CameraClamped ==
    /\ cameraState.phi >= -1500 /\ cameraState.phi <= 1500
    /\ cameraState.radius >= 200 /\ cameraState.radius <= 20000

\* a drag has pushed the pitch to its limit and the wheel the radius to its minimum
C17_Witness ==
    /\ inputs > 2
    /\ cameraState.phi \in {-1500, 1500}
    /\ cameraState.radius = 200

\* C16: the draw commands enqueued in a frame are each executed exactly once, in
\* non-decreasing order of their depth keys whatever the order of the pushes, and no
\* command of an earlier frame is executed again.
C16_FlushInDepthOrder ==
    ticks > 0 =>
        /\ Len(painted) = Len(drawQueue)
        /\ \A k \in 1..Len(drawQueue) :
               Cardinality({i \in 1..Len(painted) : painted[i].seq = k}) = 1
        /\ \A i \in 1..Len(painted) : painted[i].seq \in 1..Len(drawQueue)
        /\ \A i, j \in 1..Len(painted) : i < j => painted[i].z <= painted[j].z
        /\ \A i \in 1..Len(painted) : painted[i].frame = ticks

\* a second frame has flushed a queue that the sort had to reorder
C16_Witness ==
    /\ ticks > 1
    /\ Len(painted) > 20
    /\ \E i, j \in 1..Len(painted) :
           i < j /\ painted[i].seq > painted[j].seq /\ painted[i].z < painted[j].z

\* C18: each label is emitted in a frame exactly when its reference point projects; the
\* rotor and TRPT labels are emitted whenever the centre of their layer projects.
C18_LabelsFollowReferencePoint ==
    ticks > 0 =>
        /\ labels.liftKite.hit <=> scene.kiteAnchorS.hit
        /\ labels.generator.hit <=> scene.genS.hit
        /\ labels.rotor.hit <=> scene.rotorCentreS.hit
        /\ labels.trpt.hit <=> scene.trptCentreS.hit

\* the target TSR of the brakeRatio rule
BrakeRatioRule(ratio, optimal, maxTsr) ==
    IF ratio >= Scale
    THEN Max(0, optimal - (ratio - Scale) * 2)
    ELSE optimal + RoundDiv((Scale - ratio) * (maxTsr - optimal), Scale)

\* C21 (as claimed): in a tick with deployment >= 0.5, if the rotor was not in runaway
\* at the start of the tick or the runaway is cleared in it (windSpeed <= 18), the
\* target TSR is the one of the brakeRatio rule; if the tick starts in runaway with
\* windSpeed > 18, the target TSR is 6.2.
C21_TargetByBrakeRatioRule ==
    [][(IsTick /\ frame'.depl * 2 >= DeployScale)
           => LET rule == BrakeRatioRule(brakeRatio(frame'.currentTorque, envWindSpeed),
                                         physicsState'.optimalTsr,
                                         currentMaxTSR(bladeCount, bladeLengthIn,
                                                       bladeLengthOut))
              IN  /\ (~physicsState.isRunaway \/ envWindSpeed <= 18)
                         => frame'.targetTSR = rule
                  /\ (physicsState.isRunaway /\ envWindSpeed > 18)
                         => frame'.targetTSR = (62 * Scale) \div 10]_vars

\* C22 (as claimed): isRunaway is false at the end of every tick whose windSpeed is at
\* most 18, so that the latch never alternates at a constant wind at or below the
\* release threshold.
C22_NoRunawayAtOrBelow18 ==
    [][(IsTick /\ envWindSpeed <= 18) => ~physicsState'.isRunaway]_vars

\* C23: torque is in [0, 100] after every step (slider input, autopilot toggle, tick);
\* a tick in which the autopilot acts has its target in [0, 80] and leaves torque
\* between the previous torque and that target.
C23_TorqueInRange ==
    [][/\ torque' >= 0 /\ torque' <= 100 * Scale
       /\ (IsTick /\ frame'.autoPilotActs)
              => LET correction == 2 * (physicsState.tsr - physicsState'.optimalTsr)
                     target == Max(0, Min(80 * Scale, torque + correction))
                 IN  /\ target >= 0 /\ target <= 80 * Scale
                     /\ torque' >= Min(torque, target)
                     /\ torque' <= Max(torque, target)]_vars

\* the autopilot, switched on with the slider at 100, has eased the torque down from there
C23_Witness ==
    /\ isAutoPilot /\ frame.autoPilotActs
    /\ lastInput.control = "autopilot"
    /\ torque > 80 * Scale /\ torque < 100 * Scale

\* C24: compressionRisk is false at the end of every tick in which autopilot is on.
C24_NoCompressionRiskUnderAutoPilot ==
    [][(IsTick /\ isAutoPilot) => ~physicsState'.compressionRisk]_vars

\* a tick with autopilot on that started with torque above 85 at a wind above 10
C24_Witness ==
    /\ isAutoPilot /\ frame.ran /\ frame.autoPilotActs
    /\ frame.windSpeed > 10
    /\ torque > 85 * Scale
    /\ frame.currentTorque <= 80 * Scale
    /\ ~physicsState.compressionRisk

\* C25: the outputs of one UI sample agree: a true grounded flag comes with the status
\* GROUNDED, and the status RUNAWAY comes with a true runaway flag and a false grounded
\* flag.
C25_SampleConsistent ==
    sample.ran =>
        /\ uiGrounded => uiStatus = "GROUNDED"
        /\ uiStatus = "RUNAWAY" => (uiRunaway /\ ~uiGrounded)

\* a sample of a rotor in runaway at deployment 0.5, the lowest that is not GROUNDED
C25_Witness ==
    /\ sample.ran
    /\ sample.deployment * 2 = DeployScale
    /\ uiStatus = "RUNAWAY" /\ uiRunaway /\ ~uiGrounded

====
